---------------------------- MODULE Spec2Model ----------------------------
(***************************************************************************)
(* A model of the Betclic live-match scraper: the match record normaliser  *)
(* (betclic_json_simplifier.py), the URL canonicaliser, the recursive      *)
(* search for "grouped_markets" (live_match_scraper.py), the live feed     *)
(* acquisition (betclic_scraper.py), the per-match detail acquisition      *)
(* (live_match_scraper.py, OpenAIHelper.py), the batch orchestrator        *)
(* (betclic_scraper.py) and the endpoints (main.py).                       *)
(*                                                                         *)
(* Representation of Python values:                                        *)
(*   - a str that the code takes apart (a URL, a URL fragment) is a        *)
(*     sequence of one-character strings; the non-ASCII letter e-acute is  *)
(*     the token "U+00E9";                                                 *)
(*   - a RawMatch dict is a function from its keys to its values, so a     *)
(*     key is missing iff it is not in DOMAIN; a list is a sequence;       *)
(*   - a leaf value is tagged: None, PyInt(n), PyStr(s);                  *)
(*   - a JSON value whose shape the code inspects with isinstance is       *)
(*     tagged too: JDict (an ordered sequence of key/value items, as dict  *)
(*     iteration is ordered), JList, JNull, JNum, JStr;                    *)
(*   - a call either returns or raises: Return(v) or Raise(exc).          *)
(***************************************************************************)
EXTENDS Integers, Sequences, FiniteSets, TLC

VARIABLES
    pc,               \* position of the call being modelled
    competition_url,  \* clean_and_combine_urls: first argument
    match_url,        \* clean_and_combine_urls: second argument
    combined_url,     \* clean_and_combine_urls: returned URL
    recanon_url,      \* the canonicalising step applied to combined_url
    raw_match,        \* process_match: its argument
    processed_match,  \* process_match: what the call returned or raised
    data,             \* find_grouped_markets: its argument
    grouped_markets,  \* find_grouped_markets: the returned list
    response,         \* scrape_betclic_matches: what requests.get meets
    html_content,     \* scrape_betclic_matches: response.text
    script_tag,       \* scrape_betclic_matches: result of soup.find
    json_data,        \* scrape_betclic_matches: result of json.loads
    matches_data,     \* scrape_betclic_matches: result of the path lookup
    log,              \* the records written through logging, in order
    matches,          \* scrape_betclic_matches: what the call returned
    history,          \* the stages scrape_betclic_matches went through
    get_count,        \* scrape_betclic_matches: calls of requests.get made
    running_browsers, \* Chrome instances started and not yet quit
    automation,       \* get_match_stats_html: outcome of each browser step
    element_html,     \* get_match_stats_html: what the call returned or raised
    raw_text,         \* parse_match_stats: what get_raw_stats returned
    raw2json_calls,   \* the arguments raw2json was invoked with, in order
    stats_result,     \* parse_match_stats: what the call returned or raised
    parse_results,    \* the outcomes of the finished parse_match_stats calls
    stats_file,       \* match_stats.txt: its lines
    file_opens,       \* the modes match_stats.txt was opened with
    calls,            \* parse_match_stats calls started
    scraper_matches,  \* BetclicScraper.matches (self.matches)
    live_match_urls,  \* get_all_match_stats: the name/URL items iterated
    idx,              \* get_all_match_stats: items of the loop finished
    all_match_stats,  \* get_all_match_stats: the mapping being filled
    trace,            \* get_all_match_stats: sleeps and acquisitions, in order
    batch_result,     \* get_all_match_stats: what the call returned
    operation,        \* the endpoint of main.py that was requested
    api_response      \* what the endpoint returned or raised

vars == <<pc, competition_url, match_url, combined_url, recanon_url,
          raw_match, processed_match, data, grouped_markets,
          response, html_content, script_tag, json_data, matches_data,
          log, matches, history, get_count,
          running_browsers, automation, element_html, raw_text,
          raw2json_calls, stats_result, parse_results, stats_file,
          file_opens, calls,
          scraper_matches, live_match_urls, idx, all_match_stats, trace,
          batch_result, operation, api_response>>

urlVars    == <<competition_url, match_url, combined_url, recanon_url>>
matchVars  == <<raw_match, processed_match>>
searchVars == <<data, grouped_markets>>
scrapeVars == <<response, html_content, script_tag, json_data, matches_data,
                log, matches, history, get_count>>
statsVars  == <<running_browsers, automation, element_html, raw_text,
                raw2json_calls, stats_result, parse_results, stats_file,
                file_opens, calls>>
batchVars  == <<live_match_urls, idx, all_match_stats, trace, batch_result>>
apiVars    == <<scraper_matches, operation, api_response>>

(***************************************************************************)
(* Bounds of the model.                                                    *)
(***************************************************************************)
MaxFragLen == 2      \* longest URL fragment drawn
MaxScore == 3        \* largest score drawn
MaxMinutes == 2      \* elapsed_time is drawn from 0 .. 60 * MaxMinutes + 1
MaxDepth == 6        \* deepest nesting of the JSON values searched
MaxMatches == 3      \* longest match list on the listing page

(***************************************************************************)
(* Python values.                                                          *)
(***************************************************************************)
None == [t |-> "none"]
PyInt(n) == [t |-> "int", i |-> n]
PyStr(s) == [t |-> "str", s |-> s]
PyBool(b) == [t |-> "bool", b |-> b]

Return(v) == [kind |-> "return", value |-> v]
Raise(exc, at) == [kind |-> "raise", exc |-> exc, at |-> at]
NotCalled == [kind |-> "not_called"]

\* dict.get(key, default)
Get(d, key, default) == IF key \in DOMAIN d THEN d[key] ELSE default

EmptyDict == [k \in {} |-> None]

\* the dict d without the key k
Without(d, k) == [x \in DOMAIN d \ {k} |-> d[x]]

\* F applied to the value of x: x is evaluated once, whatever F does with it
Apply(F(_), x) == CHOOSE r \in {F(v) : v \in {x}} : TRUE

\* the concatenation of the sequences ss[i], ss[i+1], ...
RECURSIVE FlattenFrom(_, _)
FlattenFrom(ss, i) == IF i > Len(ss) THEN <<>> ELSE ss[i] \o FlattenFrom(ss, i + 1)

\* the concatenation of a sequence of sequences
FlattenAll(ss) == FlattenFrom(ss, 1)
Flatten(ss) == Apply(FlattenAll, ss)

\* the elements of s that are in keep, in order
Filter(s, keep) ==
    LET Kept(v) == Flatten([i \in 1..Len(v) |-> IF v[i] \in keep THEN <<v[i]>> ELSE <<>>])
    IN  Apply(Kept, s)

\* the first position of s holding a member of set, 0 when there is none
Find(s, set) ==
    LET First(v) ==
            IF \E i \in 1..Len(v) : v[i] \in set
            THEN CHOOSE i \in 1..Len(v) : v[i] \in set /\ \A j \in 1..(i-1) : v[j] \notin set
            ELSE 0
    IN  Apply(First, s)

\* the last position of s holding a member of set, 0 when there is none
RFind(s, set) ==
    LET Last(v) ==
            IF \E i \in 1..Len(v) : v[i] \in set
            THEN CHOOSE i \in 1..Len(v) : v[i] \in set /\ \A j \in (i+1)..Len(v) : v[j] \notin set
            ELSE 0
    IN  Apply(Last, s)

\* the sequences over S of length at most n
SeqsUpTo(S, n) == UNION {[1..k -> S] : k \in 0..n}

(***************************************************************************)
(* Characters.  re's \w on a str pattern is Unicode-aware: it matches the  *)
(* ASCII letters and digits, "_" and the non-ASCII letters.                *)
(***************************************************************************)
AsciiLetters ==
    {"a","b","c","d","e","f","g","h","i","j","k","l","m","n","o","p","q","r",
     "s","t","u","v","w","x","y","z","A","B","C","D","E","F","G","H","I","J",
     "K","L","M","N","O","P","Q","R","S","T","U","V","W","X","Y","Z"}
AsciiDigits == {"0","1","2","3","4","5","6","7","8","9"}
NonAsciiLetters == {"U+00E9"}
WordChars == AsciiLetters \cup AsciiDigits \cup {"_"} \cup NonAsciiLetters

\* the characters the pattern [^\w:/.-] leaves in place
KeptByStrip == WordChars \cup {":", "/", ".", "-"}

\* the characters the spec's set [A-Za-z0-9_:/.-] allows
AllowedBySpec == AsciiLetters \cup AsciiDigits \cup {"_", ":", "/", ".", "-"}

\* urllib.parse.quote: never quoted, plus the default safe="/"
QuoteSafe == AsciiLetters \cup AsciiDigits \cup {"_", ".", "-", "~"} \cup {"/"}

\* the percent-encoding of the UTF-8 bytes of the drawn characters quote escapes
PercentEncoded(c) ==
    CASE c = " "      -> <<"%", "2", "0">>
      [] c = "%"      -> <<"%", "2", "5">>
      [] c = ":"      -> <<"%", "3", "A">>
      [] c = ";"      -> <<"%", "3", "B">>
      [] c = "?"      -> <<"%", "3", "F">>
      [] c = "#"      -> <<"%", "2", "3">>
      [] c = "U+00E9" -> <<"%", "C", "3", "%", "A", "9">>

\* re.sub(r'[^\w:/.-]', '', url)
re_sub_strip(url) == Filter(url, KeptByStrip)

\* urllib.parse.quote(path)
quote(path) ==
    LET Quoted(v) == Flatten([i \in 1..Len(v) |->
                        IF v[i] \in QuoteSafe THEN <<v[i]>> ELSE PercentEncoded(v[i])])
    IN  Apply(Quoted, path)

\* s[i-1:] and s[:i] of Python, with 1-based positions
From(s, i) == SubSeq(s, i, Len(s))
Upto(s, i) == SubSeq(s, 1, i)

\* the part of s before position i and the part after it; all of s and
\* nothing when i = 0
Before(s, i) == IF i = 0 THEN s ELSE Upto(s, i - 1)
After(s, i) == IF i = 0 THEN <<>> ELSE From(s, i + 1)

StartsWith(s, p) == Len(s) >= Len(p) /\ SubSeq(s, 1, Len(p)) = p

SchemeChars == AsciiLetters \cup AsciiDigits \cup {"+", "-", "."}

(***************************************************************************)
(* urllib.parse.urlparse, for URLs without tab, CR, LF or leading blanks.  *)
(* Each step takes the parts found so far and the rest of the URL, as      *)
(* urlsplit does: the scheme, then "//" netloc up to the first of / ? #,   *)
(* then the fragment after the first #, the query after the first ?, and   *)
(* (urlparse) the params after the first ; of the last path segment.       *)
(***************************************************************************)
SplitScheme(url) ==
    LET colon == Find(url, {":"})
    IN  IF /\ colon > 1
           /\ url[1] \in AsciiLetters
           /\ \A i \in 1..(colon - 1) : url[i] \in SchemeChars
        THEN [scheme |-> Upto(url, colon - 1), rest |-> From(url, colon + 1)]
        ELSE [scheme |-> <<>>, rest |-> url]

SplitNetloc(p) ==
    IF StartsWith(p.rest, <<"/", "/">>)
    THEN LET after == From(p.rest, 3)
             delim == Find(after, {"/", "?", "#"})
         IN  [scheme |-> p.scheme, netloc |-> Before(after, delim),
              rest |-> IF delim = 0 THEN <<>> ELSE From(after, delim)]
    ELSE [scheme |-> p.scheme, netloc |-> <<>>, rest |-> p.rest]

SplitFragment(p) ==
    LET hash == Find(p.rest, {"#"})
    IN  [scheme |-> p.scheme, netloc |-> p.netloc,
         fragment |-> After(p.rest, hash), rest |-> Before(p.rest, hash)]

SplitQuery(p) ==
    LET qmark == Find(p.rest, {"?"})
    IN  [scheme |-> p.scheme, netloc |-> p.netloc, fragment |-> p.fragment,
         query |-> After(p.rest, qmark), rest |-> Before(p.rest, qmark)]

SplitParams(p) ==
    LET lastSlash == RFind(p.rest, {"/"})
        semiRel == Find(From(p.rest, lastSlash + 1), {";"})
        semi == IF semiRel = 0 THEN 0 ELSE lastSlash + semiRel
    IN  [scheme |-> p.scheme, netloc |-> p.netloc, path |-> Before(p.rest, semi),
         params |-> After(p.rest, semi), query |-> p.query, fragment |-> p.fragment]

urlparse(url) ==
    Apply(SplitParams,
        Apply(SplitQuery,
            Apply(SplitFragment,
                Apply(SplitNetloc,
                    Apply(SplitScheme, url)))))

\* urllib.parse.urlunparse, for a scheme that uses a netloc (https)
Unparse(p) ==
    LET u0 == IF p.params # <<>> THEN p.path \o <<";">> \o p.params ELSE p.path
        u1 == IF p.netloc # <<>> \/ ~StartsWith(u0, <<"/", "/">>)
              THEN <<"/", "/">> \o p.netloc
                      \o (IF u0 # <<>> /\ u0[1] # "/" THEN <<"/">> ELSE <<>>) \o u0
              ELSE u0
    IN  (IF p.scheme # <<>> THEN p.scheme \o <<":">> ELSE <<>>)
        \o u1
        \o (IF p.query # <<>> THEN <<"?">> \o p.query ELSE <<>>)
        \o (IF p.fragment # <<>> THEN <<"#">> \o p.fragment ELSE <<>>)

urlunparse(p) == Apply(Unparse, p)

\* "https://www.betclic.pt"
BaseOrigin ==
    <<"h","t","t","p","s",":","/","/","w","w","w",".","b","e","t","c","l","i","c",".","p","t">>

\* the f-string of line 47
FormatCombined(competition, match) == BaseOrigin \o <<"/">> \o competition \o <<"/">> \o match

(***************************************************************************)
(* Lines 48-50: the stripped URL is parsed, and its path is replaced by    *)
(* the quoted path of the URL as it was before stripping.                  *)
(***************************************************************************)
ReplacePath(url) ==
    urlunparse([urlparse(re_sub_strip(url)) EXCEPT !.path = quote(urlparse(url).path)])

StripThenEncode(url) == Apply(ReplacePath, url)

clean_and_combine_urls(competition, match) ==
    StripThenEncode(FormatCombined(competition, match))

(***************************************************************************)
(* The URL canonicaliser as a state machine: the two fragments are drawn,  *)
(* CombineUrls is the call of clean_and_combine_urls, and Recanonicalize   *)
(* applies lines 48-50 once more to the URL the call returned.             *)
(***************************************************************************)
FragmentChars == {"a", ":", " ", "?", "%", ";", "U+00E9"}
Fragments == SeqsUpTo(FragmentChars, MaxFragLen)

IdleUrl ==
    /\ competition_url = <<>> /\ match_url = <<>>
    /\ combined_url = <<>> /\ recanon_url = <<>>
IdleMatch == raw_match = EmptyDict /\ processed_match = NotCalled
IdleSearch == data = None /\ grouped_markets = <<>>
IdleScrape ==
    /\ response = None /\ html_content = None /\ script_tag = None
    /\ json_data = None /\ matches_data = None
    /\ log = <<>> /\ matches = NotCalled /\ history = <<>> /\ get_count = 0
IdleStats ==
    /\ running_browsers = 0 /\ automation = <<>> /\ element_html = NotCalled
    /\ raw_text = None /\ raw2json_calls = <<>> /\ stats_result = NotCalled
    /\ parse_results = <<>> /\ stats_file = <<>> /\ file_opens = <<>> /\ calls = 0
IdleBatch ==
    /\ live_match_urls = <<>> /\ idx = 0 /\ all_match_stats = <<>>
    /\ trace = <<>> /\ batch_result = NotCalled
IdleApi == scraper_matches = None /\ operation = "" /\ api_response = NotCalled

InitUrl ==
    /\ pc = "start"
    /\ competition_url \in Fragments
    /\ match_url \in Fragments
    /\ combined_url = <<>>
    /\ recanon_url = <<>>
    /\ IdleMatch /\ IdleSearch /\ IdleScrape
    /\ IdleStats /\ IdleBatch /\ IdleApi

CombineUrls ==
    /\ pc = "start"
    /\ combined_url' = clean_and_combine_urls(competition_url, match_url)
    /\ pc' = "combined"
    /\ UNCHANGED <<competition_url, match_url, recanon_url>>
    /\ UNCHANGED <<matchVars, searchVars, scrapeVars>>
    /\ UNCHANGED <<statsVars, batchVars, apiVars>>

Recanonicalize ==
    /\ pc = "combined"
    /\ recanon_url' = StripThenEncode(combined_url)
    /\ pc' = "recanonicalized"
    /\ UNCHANGED <<competition_url, match_url, combined_url>>
    /\ UNCHANGED <<matchVars, searchVars, scrapeVars>>
    /\ UNCHANGED <<statsVars, batchVars, apiVars>>

NextUrl == CombineUrls \/ Recanonicalize

SpecUrl == InitUrl /\ [][NextUrl]_vars

(***************************************************************************)
(* MatchProcessor.  A RawMatch is a function from keys to values; the      *)
(* values under "grouped_markets", "markets", "selections" and             *)
(* "contestants" are sequences; the scores and elapsed_time are tagged     *)
(* leaves, as upstream may send null or a string for them.                 *)
(***************************************************************************)

\* int(x) of lines 67-68, for the leaves drawn: an int, a one-character str, None
DigitValue == [c \in AsciiDigits |->
    CASE c = "0" -> 0 [] c = "1" -> 1 [] c = "2" -> 2 [] c = "3" -> 3 [] c = "4" -> 4
      [] c = "5" -> 5 [] c = "6" -> 6 [] c = "7" -> 7 [] c = "8" -> 8 [] c = "9" -> 9]

int(x) ==
    CASE x.t = "int"  -> Return(x.i)
      [] x.t = "bool" -> Return(IF x.b THEN 1 ELSE 0)
      [] x.t = "str"  -> IF x.s \in AsciiDigits THEN Return(DigitValue[x.s])
                         ELSE Raise("ValueError", "int")
      [] x.t = "none" -> Raise("TypeError", "int")

\* a list or None as one value: what extract_odds returns
PyList(l) == [t |-> "list", l |-> l]

(***************************************************************************)
(* extract_odds, lines 54-61: the chain of "and" returns its first falsy   *)
(* operand, else its last one.                                             *)
(***************************************************************************)
extract_odds(raw) ==
    LET groups == Get(raw, "grouped_markets", <<>>)
    IN  IF groups = <<>> THEN PyList(<<>>)
        ELSE LET markets == Get(groups[1], "markets", <<>>)
             IN  IF markets = <<>> THEN PyList(<<>>)
                 ELSE IF "selections" \in DOMAIN markets[1]
                      THEN PyList(markets[1]["selections"])
                      ELSE None

\* extract_scoreboard, lines 64-69
extract_scoreboard(raw) ==
    LET scoreboard == Get(Get(raw, "live_data", EmptyDict), "scoreboard", EmptyDict)
        current == Get(scoreboard, "current_score", EmptyDict)
        home == int(Get(current, "contestant1", PyInt(0)))
        away == int(Get(current, "contestant2", PyInt(0)))
    IN  IF home.kind = "raise" THEN Raise(home.exc, "extract_scoreboard")
        ELSE IF away.kind = "raise" THEN Raise(away.exc, "extract_scoreboard")
        ELSE Return([home_score |-> home.value, away_score |-> away.value,
                     scoreboard |-> scoreboard])

\* the winner expression of line 77
Winner(home_score, away_score) ==
    IF home_score > away_score THEN "home"
    ELSE IF away_score > home_score THEN "away" ELSE "draw"

\* calculate_result with >= for > in the winner expression: a tie goes to home
calculate_result_TieGoesHome(home_score, away_score, scoreboard) ==
    LET elapsed == Get(scoreboard, "elapsed_time", PyInt(0))
    IN  IF elapsed.t # "int" THEN Raise("TypeError", "calculate_result")
        ELSE Return([home_score |-> home_score,
                     away_score |-> away_score,
                     winner |-> IF home_score >= away_score THEN "home" ELSE "away",
                     current_minute |-> elapsed.i \div 60])

\* calculate_result, lines 72-80; // of an int by 60 floors
calculate_result(home_score, away_score, scoreboard) ==
    LET elapsed == Get(scoreboard, "elapsed_time", PyInt(0))
    IN  IF elapsed.t # "int" THEN Raise("TypeError", "calculate_result")
        ELSE Return([home_score |-> home_score,
                     away_score |-> away_score,
                     winner |-> Winner(home_score, away_score),
                     current_minute |-> elapsed.i \div 60])

\* lines 84-86: both fragments are subscripted, then combined
CombinedUrlOf(raw) ==
    IF "competition" \notin DOMAIN raw THEN Raise("KeyError", "competition")
    ELSE IF "relative_desktop_url" \notin DOMAIN raw["competition"]
         THEN Raise("KeyError", "competition.relative_desktop_url")
    ELSE IF "relative_desktop_url" \notin DOMAIN raw THEN Raise("KeyError", "relative_desktop_url")
    ELSE Return(clean_and_combine_urls(raw["competition"]["relative_desktop_url"],
                                       raw["relative_desktop_url"]))

\* lines 94-99
CompetitionOf(raw) ==
    LET competition == Get(raw, "competition", EmptyDict)
    IN  [name    |-> Get(competition, "name", None),
         country |-> Get(Get(competition, "country", EmptyDict), "code", None),
         sport   |-> Get(Get(competition, "sport", EmptyDict), "name", None),
         round   |-> Get(Get(competition, "info", EmptyDict), "round_name", None)]

\* raw_match["contestants"][i]["name"] of lines 101-102, i counted from 0
ContestantName(raw, i) ==
    IF "contestants" \notin DOMAIN raw THEN Raise("KeyError", "contestants")
    ELSE IF Len(raw["contestants"]) < i + 1 THEN Raise("IndexError", "contestants")
    ELSE IF "name" \notin DOMAIN raw["contestants"][i + 1] THEN Raise("KeyError", "name")
    ELSE Return(raw["contestants"][i + 1]["name"])

\* odds[i][0].get("odds") of lines 106-108, i counted from 0
SelectionOdds(odds, i) == Get(odds.l[i + 1][1], "odds", None)

\* line 106: guarded by the truth of odds
HomeWinOf(odds) ==
    IF odds # None /\ odds.l # <<>> /\ Len(odds.l) > 0 /\ Len(odds.l[1]) > 0
    THEN Return(SelectionOdds(odds, 0)) ELSE Return(None)

\* lines 107-108 with the length guard off by one (len(odds) >= i): the
\* subscript then runs past the end of a list of exactly i entries
PositionalOdds_OffByOne(odds, i) ==
    IF odds = None THEN Raise("TypeError", "len(odds)")
    ELSE IF Len(odds.l) >= i
         THEN IF Len(odds.l) < i + 1 THEN Raise("IndexError", "odds")
              ELSE IF Len(odds.l[i + 1]) > 0 THEN Return(SelectionOdds(odds, i))
              ELSE Return(None)
         ELSE Return(None)

\* lines 107-108: len(odds) is taken whatever odds is
PositionalOdds(odds, i) ==
    IF odds = None THEN Raise("TypeError", "len(odds)")
    ELSE IF Len(odds.l) > i /\ Len(odds.l[i + 1]) > 0
         THEN Return(SelectionOdds(odds, i)) ELSE Return(None)

\* the first raise among the steps, in evaluation order; Return(<<>>) if none
FirstRaise(steps) ==
    LET Raised(v) ==
            IF \E i \in 1..Len(v) : v[i].kind = "raise"
            THEN v[Find([i \in 1..Len(v) |-> v[i].kind], {"raise"})]
            ELSE Return(<<>>)
    IN  Apply(Raised, steps)

(***************************************************************************)
(* process_match, lines 82-117.  The steps are evaluated in source order   *)
(* and the first one that raises ends the call.                            *)
(***************************************************************************)
process_match(raw) ==
    LET url == CombinedUrlOf(raw)
        odds == extract_odds(raw)
        sb == extract_scoreboard(raw)
        result == IF sb.kind = "raise" THEN sb
                  ELSE calculate_result(sb.value.home_score, sb.value.away_score,
                                        sb.value.scoreboard)
        home == ContestantName(raw, 0)
        away == ContestantName(raw, 1)
        home_win == HomeWinOf(odds)
        draw == PositionalOdds(odds, 1)
        away_win == PositionalOdds(odds, 2)
        failed == FirstRaise(<<url, sb, result, home, away, home_win, draw, away_win>>)
    IN  IF failed.kind = "raise" THEN failed
        ELSE Return([match_id |-> Get(raw, "id", None),
                     competition |-> CompetitionOf(raw),
                     teams |-> [home |-> home.value, away |-> away.value],
                     datetime |-> Get(raw, "date", None),
                     odds |-> [home_win |-> home_win.value,
                               draw |-> draw.value,
                               away_win |-> away_win.value],
                     result |-> result.value,
                     match_status |-> [is_live |-> Get(raw, "is_live", None)],
                     url |-> url.value])

(***************************************************************************)
(* The RawMatch values drawn: a complete match, and every match that       *)
(* differs from it in one component (the competition, the contestants,     *)
(* the grouped markets, the live data, or one missing top-level key).      *)
(***************************************************************************)
PyFloat(repr) == [t |-> "float", repr |-> repr]

FullCompetition ==
    [name |-> PyStr("Liga Betclic"),
     country |-> [code |-> PyStr("pt")],
     sport |-> [name |-> PyStr("Futebol")],
     info |-> [round_name |-> PyStr("Jornada 1")],
     relative_desktop_url |-> <<"a">>]

FullContestants == <<[name |-> PyStr("Benfica")], [name |-> PyStr("FC Porto")]>>

\* one entry of "selections" is a list whose first element carries "odds"
SelectionEntries ==
    {<<>>, <<EmptyDict>>, <<[odds |-> PyFloat("1.5")]>>, <<[odds |-> PyFloat("3.2")]>>}
SelectionLists == SeqsUpTo(SelectionEntries, 3)
FullSelections ==
    <<<<[odds |-> PyFloat("1.5")]>>, <<[odds |-> PyFloat("3.2")]>>, <<[odds |-> PyFloat("1.5")]>>>>

GroupedMarketsOf(selections) == <<[markets |-> <<[selections |-> selections]>>]>>

ScoreLeaves == {PyInt(n) : n \in 0..MaxScore} \cup {None, PyStr("x"), PyStr("2")}
ElapsedLeaves == {PyInt(60 * m + r) : m \in 0..MaxMinutes, r \in {0, 59}} \cup {None}

LiveDataOf(c1, c2, elapsed) ==
    [scoreboard |-> [current_score |-> [contestant1 |-> c1, contestant2 |-> c2],
                     elapsed_time |-> elapsed]]

FullLiveData == LiveDataOf(PyInt(2), PyInt(1), PyInt(119))

FullMatch ==
    [id |-> PyInt(1),
     competition |-> FullCompetition,
     contestants |-> FullContestants,
     date |-> PyStr("2024-11-10T20:45:00Z"),
     grouped_markets |-> GroupedMarketsOf(FullSelections),
     live_data |-> FullLiveData,
     is_live |-> PyBool(TRUE),
     relative_desktop_url |-> <<"a", ":">>]

Competitions ==
    {Without(FullCompetition, k) : k \in DOMAIN FullCompetition}
    \cup {[FullCompetition EXCEPT ![k] = EmptyDict] : k \in {"country", "sport", "info"}}

ContestantLists ==
    {<<>>, <<FullContestants[1]>>, <<EmptyDict, FullContestants[2]>>,
     <<FullContestants[1], EmptyDict>>}

GroupedMarketsValues ==
    {<<>>, <<EmptyDict>>, <<[markets |-> <<>>]>>, <<[markets |-> <<EmptyDict>>]>>}
    \cup {GroupedMarketsOf(sel) : sel \in SelectionLists}

LiveDataValues ==
    {EmptyDict, [scoreboard |-> EmptyDict],
     [scoreboard |-> [elapsed_time |-> PyInt(119)]],
     [scoreboard |-> [current_score |-> EmptyDict, elapsed_time |-> PyInt(119)]],
     [scoreboard |-> [current_score |-> [contestant2 |-> PyInt(1)], elapsed_time |-> PyInt(119)]],
     [scoreboard |-> [current_score |-> [contestant1 |-> PyInt(2)], elapsed_time |-> PyInt(119)]],
     [scoreboard |-> [current_score |-> [contestant1 |-> PyInt(2), contestant2 |-> PyInt(1)]]]}
    \cup {LiveDataOf(c1, c2, e) : c1 \in ScoreLeaves, c2 \in ScoreLeaves, e \in ElapsedLeaves}

RawMatches ==
    {FullMatch}
    \cup {Without(FullMatch, k) : k \in DOMAIN FullMatch}
    \cup {[FullMatch EXCEPT !["competition"] = c] : c \in Competitions}
    \cup {[FullMatch EXCEPT !["contestants"] = c] : c \in ContestantLists}
    \cup {[FullMatch EXCEPT !["grouped_markets"] = g] : g \in GroupedMarketsValues}
    \cup {[FullMatch EXCEPT !["live_data"] = l] : l \in LiveDataValues}
    \cup {[FullMatch EXCEPT !["is_live"] = PyBool(FALSE)]}

InitMatch ==
    /\ pc = "start"
    /\ raw_match \in RawMatches
    /\ processed_match = NotCalled
    /\ IdleUrl /\ IdleSearch /\ IdleScrape
    /\ IdleStats /\ IdleBatch /\ IdleApi

ProcessMatch ==
    /\ pc = "start"
    /\ processed_match' = process_match(raw_match)
    /\ pc' = "done"
    /\ UNCHANGED <<raw_match, urlVars, searchVars, scrapeVars>>
    /\ UNCHANGED <<statsVars, batchVars, apiVars>>

NextMatch == ProcessMatch

SpecMatch == InitMatch /\ [][NextMatch]_vars

(***************************************************************************)
(* Properties of the match record normaliser.                              *)
(***************************************************************************)
OptionalFields ==
    {"id", "competition", "competition.name", "competition.country",
     "competition.country.code", "competition.sport", "competition.info",
     "competition.relative_desktop_url", "contestants", "contestants[0].name",
     "contestants[1].name", "date", "grouped_markets", "live_data",
     "live_data.scoreboard", "live_data.scoreboard.current_score",
     "live_data.scoreboard.elapsed_time", "is_live", "relative_desktop_url"}

\* the complete match m with the one field f missing
RemoveField(m, f) ==
    CASE f \in {"id", "competition", "contestants", "date", "grouped_markets",
                "live_data", "is_live", "relative_desktop_url"} -> Without(m, f)
      [] f = "competition.name" -> [m EXCEPT !["competition"] = Without(@, "name")]
      [] f = "competition.country" -> [m EXCEPT !["competition"] = Without(@, "country")]
      [] f = "competition.country.code" -> [m EXCEPT !["competition"]["country"] = EmptyDict]
      [] f = "competition.sport" -> [m EXCEPT !["competition"] = Without(@, "sport")]
      [] f = "competition.info" -> [m EXCEPT !["competition"] = Without(@, "info")]
      [] f = "competition.relative_desktop_url" ->
            [m EXCEPT !["competition"] = Without(@, "relative_desktop_url")]
      [] f = "contestants[0].name" -> [m EXCEPT !["contestants"][1] = EmptyDict]
      [] f = "contestants[1].name" -> [m EXCEPT !["contestants"][2] = EmptyDict]
      [] f = "live_data.scoreboard" -> [m EXCEPT !["live_data"] = EmptyDict]
      [] f = "live_data.scoreboard.current_score" ->
            [m EXCEPT !["live_data"]["scoreboard"] = Without(@, "current_score")]
      [] f = "live_data.scoreboard.elapsed_time" ->
            [m EXCEPT !["live_data"]["scoreboard"] = Without(@, "elapsed_time")]

NoScore(result) ==
    [result EXCEPT !.home_score = 0, !.away_score = 0, !.winner = "draw"]

\* the record v of the complete match with the part fed by field f absent
Degrade(v, f) ==
    CASE f = "id" -> [v EXCEPT !.match_id = None]
      [] f = "competition" ->
            [v EXCEPT !.competition = [name |-> None, country |-> None,
                                       sport |-> None, round |-> None],
                      !.url = None]
      [] f = "competition.name" -> [v EXCEPT !.competition.name = None]
      [] f \in {"competition.country", "competition.country.code"} ->
            [v EXCEPT !.competition.country = None]
      [] f = "competition.sport" -> [v EXCEPT !.competition.sport = None]
      [] f = "competition.info" -> [v EXCEPT !.competition.round = None]
      [] f \in {"competition.relative_desktop_url", "relative_desktop_url"} ->
            [v EXCEPT !.url = None]
      [] f = "contestants" -> [v EXCEPT !.teams = [home |-> None, away |-> None]]
      [] f = "contestants[0].name" -> [v EXCEPT !.teams.home = None]
      [] f = "contestants[1].name" -> [v EXCEPT !.teams.away = None]
      [] f = "date" -> [v EXCEPT !.datetime = None]
      [] f = "grouped_markets" ->
            [v EXCEPT !.odds = [home_win |-> None, draw |-> None, away_win |-> None]]
      [] f \in {"live_data", "live_data.scoreboard"} ->
            [v EXCEPT !.result = [NoScore(@) EXCEPT !.current_minute = 0]]
      [] f = "live_data.scoreboard.current_score" -> [v EXCEPT !.result = NoScore(@)]
      [] f = "live_data.scoreboard.elapsed_time" -> [v EXCEPT !.result.current_minute = 0]
      [] f = "is_live" -> [v EXCEPT !.match_status.is_live = None]

Returned == pc = "done" /\ processed_match.kind = "return"

\* C1: a match missing exactly one optional field is still turned into a
\* record, in which that field is absent and every other field is as in the
\* record of the complete match.
C1_SingleMissingFieldDegrades ==
    pc = "done" =>
        \A f \in OptionalFields :
            raw_match = RemoveField(FullMatch, f) =>
                /\ processed_match.kind = "return"
                /\ processed_match.value = Degrade(process_match(FullMatch).value, f)

FragmentMissing(raw) ==
    \/ "competition" \notin DOMAIN raw
    \/ "relative_desktop_url" \notin DOMAIN raw
    \/ "competition" \in DOMAIN raw /\ "relative_desktop_url" \notin DOMAIN raw["competition"]

\* C2: when the competition URL fragment or the match URL fragment is
\* missing, process_match still returns a record, and its url is absent.
C2_MissingFragmentGivesAbsentUrl ==
    pc = "done" /\ FragmentMissing(raw_match) =>
        /\ processed_match.kind = "return"
        /\ processed_match.value.url = None

\* the first market's selections list is there and has n entries
HasSelections(raw, n) ==
    /\ "grouped_markets" \in DOMAIN raw
    /\ Len(raw["grouped_markets"]) > 0
    /\ "markets" \in DOMAIN raw["grouped_markets"][1]
    /\ Len(raw["grouped_markets"][1]["markets"]) > 0
    /\ "selections" \in DOMAIN raw["grouped_markets"][1]["markets"][1]
    /\ Len(raw["grouped_markets"][1]["markets"][1]["selections"]) = n

SelectionsOf(raw) == raw["grouped_markets"][1]["markets"][1]["selections"]

\* the price an entry of the selections list carries, None if it carries none
EntryOdds(entry) == IF Len(entry) = 0 THEN None ELSE Get(entry[1], "odds", None)

OddsRaised ==
    pc = "done" /\ processed_match.kind = "raise" /\ processed_match.at \in {"len(odds)", "odds"}

\* C3 as stated: with two selections, away_win is present and draw is absent.
C3_TwoSelectionsAwayPresentDrawAbsent ==
    pc = "done" /\ HasSelections(raw_match, 2)
                /\ (\A i \in 1..2 : EntryOdds(SelectionsOf(raw_match)[i]) # None) =>
        /\ processed_match.kind = "return"
        /\ processed_match.value.odds.away_win # None
        /\ processed_match.value.odds.draw = None

\* C3, amended: with two selections the odds are read by position, so
\* home_win and draw come from entries 0 and 1 and away_win is absent, and
\* reading them raises nothing.
C3_TwoSelectionsAwayAbsent ==
    pc = "done" /\ HasSelections(raw_match, 2) =>
        /\ ~OddsRaised
        /\ processed_match.kind = "return" =>
              /\ processed_match.value.odds.home_win = EntryOdds(SelectionsOf(raw_match)[1])
              /\ processed_match.value.odds.draw = EntryOdds(SelectionsOf(raw_match)[2])
              /\ processed_match.value.odds.away_win = None

C3_Witness ==
    /\ Returned
    /\ HasSelections(raw_match, 2)
    /\ processed_match.value.odds.home_win = PyFloat("1.5")
    /\ processed_match.value.odds.draw = PyFloat("3.2")
    /\ processed_match.value.odds.away_win = None

\* the price at position i (from 0), absent when any step towards it is
ExpectedOdds(raw, i) ==
    IF \E n \in (i + 1)..3 : HasSelections(raw, n)
    THEN EntryOdds(SelectionsOf(raw)[i + 1]) ELSE None

\* C4: each of the three odds is read from its position and is absent,
\* never a raised error, when anything on the way to it is missing or empty.
C4_OddsAbsentNeverRaised ==
    pc = "done" =>
        /\ ~OddsRaised
        /\ processed_match.kind = "return" =>
              /\ processed_match.value.odds.home_win = ExpectedOdds(raw_match, 0)
              /\ processed_match.value.odds.draw = ExpectedOdds(raw_match, 1)
              /\ processed_match.value.odds.away_win = ExpectedOdds(raw_match, 2)

\* the leaf under live_data.scoreboard.current_score[key], None when missing
ScoreLeaf(raw, key) ==
    Get(Get(Get(Get(raw, "live_data", EmptyDict), "scoreboard", EmptyDict),
            "current_score", EmptyDict), key, None)

\* the score the claim expects: the integer, or 0 for absent, null, non-numeric
ExpectedScore(raw, key) ==
    LET leaf == ScoreLeaf(raw, key)
    IN  IF leaf.t = "int" THEN leaf.i
        ELSE IF leaf.t = "str" /\ leaf.s \in AsciiDigits THEN DigitValue[leaf.s]
        ELSE 0

\* C5: the scores are integers, 0 when the sub-field is absent, null or not
\* coercible, and a coercion failure never reaches the caller.
C5_ScoresDefaultToZero ==
    pc = "done" =>
        /\ ~(processed_match.kind = "raise" /\ processed_match.at = "extract_scoreboard")
        /\ processed_match.kind = "return" =>
              /\ processed_match.value.result.home_score = ExpectedScore(raw_match, "contestant1")
              /\ processed_match.value.result.away_score = ExpectedScore(raw_match, "contestant2")

ElapsedLeaf(raw) ==
    Get(Get(Get(raw, "live_data", EmptyDict), "scoreboard", EmptyDict), "elapsed_time", None)

ElapsedAbsent(raw) ==
    "elapsed_time" \notin DOMAIN Get(Get(raw, "live_data", EmptyDict), "scoreboard", EmptyDict)

\* C6: winner is home, away or draw as the scores compare, and
\* current_minute is the floor of elapsed_time / 60, 0 when it is absent.
C6_ResultDerivation ==
    pc = "done" =>
        LET absent == ElapsedAbsent(raw_match)
            leaf == ElapsedLeaf(raw_match)
        IN  /\ (absent \/ leaf.t = "int") =>
                  ~(processed_match.kind = "raise" /\ processed_match.at = "calculate_result")
            /\ processed_match.kind = "return" =>
                  LET r == processed_match.value.result
                      e == IF absent THEN 0 ELSE leaf.i
                  IN  /\ r.home_score >= 0 /\ r.away_score >= 0
                      /\ r.winner \in {"home", "away", "draw"}
                      /\ (r.winner = "home") <=> (r.home_score > r.away_score)
                      /\ (r.winner = "away") <=> (r.away_score > r.home_score)
                      /\ (r.winner = "draw") <=> (r.home_score = r.away_score)
                      /\ 60 * r.current_minute <= e
                      /\ e < 60 * (r.current_minute + 1)
                      /\ absent => r.current_minute = 0

C6_Witness ==
    /\ Returned
    /\ processed_match.value.result.home_score = 1
    /\ processed_match.value.result.away_score = 2
    /\ processed_match.value.result.winner = "away"
    /\ ElapsedLeaf(raw_match) = PyInt(119)
    /\ processed_match.value.result.current_minute = 1

(***************************************************************************)
(* Properties of the URL canonicaliser.                                    *)
(***************************************************************************)
\* the URL the claim describes: strip the disallowed characters from the
\* whole URL, then percent-encode the path of what is left
StrippedThenEncoded(competition, match) ==
    LET stripped == urlparse(Filter(FormatCombined(competition, match), AllowedBySpec))
    IN  urlunparse([stripped EXCEPT !.path = quote(stripped.path)])

\* C7: the returned URL is the stripped URL with its path percent-encoded,
\* so a disallowed character of a fragment appears in it in no form.
C7_StripBeforeEncode ==
    pc \in {"combined", "recanonicalized"} =>
        combined_url = StrippedThenEncoded(competition_url, match_url)

\* C8: canonicalising a URL the canonicaliser produced gives the same URL.
C8_Idempotent ==
    pc = "recanonicalized" => recanon_url = combined_url

(***************************************************************************)
(* JSON values as json.loads builds them.  An object keeps its items in    *)
(* order, as a dict does.                                                  *)
(***************************************************************************)
JNull == [t |-> "null"]
JNum(n) == [t |-> "number", n |-> n]
JStr(s) == [t |-> "string", s |-> s]
JList(items) == [t |-> "array", items |-> items]
JDict(items) == [t |-> "object", items |-> items]
Item(k, v) == [k |-> k, v |-> v]

IsDict(j) == j.t = "object"
IsList(j) == j.t = "array"

\* key in d, for a dict d
HasKey(d, key) == \E i \in 1..Len(d.items) : d.items[i].k = key

\* d[key], for a dict d that has the key
Lookup(d, key) == d.items[CHOOSE i \in 1..Len(d.items) : d.items[i].k = key].v

(***************************************************************************)
(* LiveMatchScraper.find_grouped_markets, lines 157-175: the value under   *)
(* "grouped_markets" is appended and, in the else branch, only the values  *)
(* under the other keys are searched.                                      *)
(***************************************************************************)
RECURSIVE find_grouped_markets(_)
find_grouped_markets(d) ==
    IF IsDict(d)
    THEN Flatten([i \in 1..Len(d.items) |->
                    IF d.items[i].k = "grouped_markets"
                    THEN <<d.items[i].v>>
                    ELSE find_grouped_markets(d.items[i].v)])
    ELSE IF IsList(d)
    THEN Flatten([i \in 1..Len(d.items) |-> find_grouped_markets(d.items[i])])
    ELSE <<>>

\* the JSON values searched: a leaf wrapped in at most MaxDepth containers
Wrappers == {"gm", "other", "gm+other", "other+gm", "list"}
Leaf == JNum(1)

Wrap(w, inner) ==
    CASE w = "gm"       -> JDict(<<Item("grouped_markets", inner)>>)
      [] w = "other"    -> JDict(<<Item("b", inner)>>)
      [] w = "gm+other" -> JDict(<<Item("grouped_markets", Leaf), Item("b", inner)>>)
      [] w = "other+gm" -> JDict(<<Item("b", inner), Item("grouped_markets", Leaf)>>)
      [] w = "list"     -> JList(<<Leaf, inner>>)

RECURSIVE Build(_)
Build(shape) == IF shape = <<>> THEN Leaf ELSE Wrap(Head(shape), Build(Tail(shape)))

JsonValues == {Build(shape) : shape \in SeqsUpTo(Wrappers, MaxDepth)}

InitSearch ==
    /\ pc = "start"
    /\ data \in JsonValues
    /\ grouped_markets = <<>>
    /\ IdleUrl /\ IdleMatch /\ IdleScrape
    /\ IdleStats /\ IdleBatch /\ IdleApi

FindGroupedMarkets ==
    /\ pc = "start"
    /\ grouped_markets' = find_grouped_markets(data)
    /\ pc' = "done"
    /\ UNCHANGED <<data, urlVars, matchVars, scrapeVars>>
    /\ UNCHANGED <<statsVars, batchVars, apiVars>>

NextSearch == FindGroupedMarkets

SpecSearch == InitSearch /\ [][NextSearch]_vars

\* every value under the key anywhere in d, depth-first, a found value's own
\* occurrences right after it
RECURSIVE AllOccurrences(_)
AllOccurrences(d) ==
    IF IsDict(d)
    THEN Flatten([i \in 1..Len(d.items) |->
                    IF d.items[i].k = "grouped_markets"
                    THEN <<d.items[i].v>> \o AllOccurrences(d.items[i].v)
                    ELSE AllOccurrences(d.items[i].v)])
    ELSE IF IsList(d)
    THEN Flatten([i \in 1..Len(d.items) |-> AllOccurrences(d.items[i])])
    ELSE <<>>

\* C9: the search returns one result per occurrence of "grouped_markets"
\* anywhere in the value, depth-first, occurrences inside the value of
\* another "grouped_markets" included.
C9_OneResultPerOccurrence ==
    pc = "done" => grouped_markets = AllOccurrences(data)

(***************************************************************************)
(* betclic_scraper.py: the live feed acquisition.                          *)
(***************************************************************************)
BETCLIC_LIVE_GAMES_KEY == "1791897521"
BETCLIC_MATCHES_PATH == <<"b", "matches">>

\* get_nested_dict_value giving up after the first key of the path
get_nested_dict_value_FirstKeyOnly(d, path) ==
    IF path = <<>> THEN d
    ELSE IF IsDict(d) /\ HasKey(d, Head(path)) THEN Lookup(d, Head(path))
    ELSE JNull

\* get_nested_dict_value, lines 37-46; None is JNull here
RECURSIVE get_nested_dict_value(_, _)
get_nested_dict_value(d, path) ==
    IF path = <<>> THEN d
    ELSE IF IsDict(d) /\ HasKey(d, Head(path))
         THEN get_nested_dict_value(Lookup(d, Head(path)), Tail(path))
         ELSE JNull

\* the messages handed to logging.error and logging.info
MsgFetchFailed == "Failed to fetch URL"
MsgNoScriptTag == "JSON script tag with id 'ng-state' not found."
MsgParseFailed == "Failed to parse JSON"
MsgNoLiveGamesKey == "Live games key not found in JSON data."
MsgNoMatches == "Could not find matches data in the expected structure."
MsgUnexpected == "An unexpected error occurred"
MsgTotalMatches == "Total matches found"

Error(msg) == [level |-> "ERROR", msg |-> msg]
Info(msg, n) == [level |-> "INFO", msg |-> msg, n |-> n]

(***************************************************************************)
(* What the call can meet.  A response is a failed connection or a status  *)
(* with a page; a page has no matching script element, a matching one      *)
(* without text (its .string is None), or one with text; a text is         *)
(* malformed or the serialisation of a JSON value.                         *)
(***************************************************************************)
RawMatchJson(n) == JDict(<<Item("id", JNum(n))>>)

MatchesValues ==
    {JNull, JNum(7), JDict(<<Item("id", JNum(1))>>)}
    \cup {JList([i \in 1..n |-> RawMatchJson(i)]) : n \in 0..MaxMatches}

LiveGamesValues ==
    {JNull, JList(<<>>), JDict(<<>>),
     JDict(<<Item("b", JNull)>>),
     JDict(<<Item("b", JDict(<<>>))>>),
     JDict(<<Item("b", JList(<<JStr("matches")>>))>>)}
    \cup {JDict(<<Item("b", JDict(<<Item("matches", m)>>))>>) : m \in MatchesValues}

PayloadValues ==
    {JNull, JNum(7), JList(<<>>), JDict(<<>>), JDict(<<Item("other", JDict(<<>>))>>)}
    \cup {JDict(<<Item("other", JNull), Item(BETCLIC_LIVE_GAMES_KEY, g)>>) : g \in LiveGamesValues}

ScriptTexts ==
    {[wellformed |-> FALSE, value |-> JNull]}
    \cup {[wellformed |-> TRUE, value |-> v] : v \in PayloadValues}

Pages ==
    {[script |-> "absent", text |-> [wellformed |-> FALSE, value |-> JNull]],
     [script |-> "empty", text |-> [wellformed |-> FALSE, value |-> JNull]]}
    \cup {[script |-> "text", text |-> txt] : txt \in ScriptTexts}

Statuses == {200, 403, 500}

Responses ==
    {[outcome |-> "connection_error", status |-> 0, page |-> p] : p \in {CHOOSE q \in Pages : q.script = "absent"}}
    \cup {[outcome |-> "response", status |-> st, page |-> p] : st \in Statuses, p \in Pages}

\* response.raise_for_status(): HTTPError for a 4xx or 5xx status
RaisesForStatus(st) == st >= 400 /\ st < 600

\* a stage entered is recorded once
Enter(stage) == IF history # <<>> /\ history[Len(history)] = stage THEN history
                ELSE Append(history, stage)

\* an except clause of lines 98-106: log the error, return None
Fail(msg) ==
    /\ log' = Append(log, Error(msg))
    /\ matches' = Return(JNull)
    /\ pc' = "done"

InitScrape ==
    /\ pc = "idle"
    /\ response \in Responses
    /\ html_content = None
    /\ script_tag = None
    /\ json_data = None
    /\ matches_data = None
    /\ log = <<>>
    /\ matches = NotCalled
    /\ history = <<>>
    /\ get_count = 0
    /\ IdleUrl /\ IdleMatch /\ IdleSearch
    /\ IdleStats /\ IdleBatch /\ IdleApi

\* lines 70-72 and the handler of lines 98-100
Fetch ==
    /\ pc = "idle"
    /\ history' = Enter("fetching")
    /\ get_count' = get_count + 1
    /\ IF response.outcome = "connection_error" \/ RaisesForStatus(response.status)
       THEN /\ Fail(MsgFetchFailed)
            /\ UNCHANGED html_content
       ELSE /\ html_content' = response.page
            /\ pc' = "fetched"
            /\ UNCHANGED <<log, matches>>
    /\ UNCHANGED <<response, script_tag, json_data, matches_data>>
    /\ UNCHANGED <<urlVars, matchVars, searchVars>>
    /\ UNCHANGED <<statsVars, batchVars, apiVars>>

\* lines 75-80: soup.find gives None or a tag, and a tag is truthy
FindScriptTag ==
    /\ pc = "fetched"
    /\ history' = Enter("parsing_html")
    /\ IF html_content.script = "absent"
       THEN /\ Fail(MsgNoScriptTag)
            /\ UNCHANGED script_tag
       ELSE /\ script_tag' = [string |-> IF html_content.script = "empty"
                                         THEN None ELSE html_content.text]
            /\ pc' = "tag_found"
            /\ UNCHANGED <<log, matches>>
    /\ UNCHANGED <<response, html_content, json_data, matches_data, get_count>>
    /\ UNCHANGED <<urlVars, matchVars, searchVars>>
    /\ UNCHANGED <<statsVars, batchVars, apiVars>>

\* line 82: json.loads raises TypeError for None (handler of lines 104-106)
\* and JSONDecodeError for malformed text (handler of lines 101-103)
LoadJson ==
    /\ pc = "tag_found"
    /\ history' = Enter("locating_payload")
    /\ IF script_tag.string = None
       THEN /\ Fail(MsgUnexpected)
            /\ UNCHANGED json_data
       ELSE IF ~script_tag.string.wellformed
       THEN /\ Fail(MsgParseFailed)
            /\ UNCHANGED json_data
       ELSE /\ json_data' = script_tag.string.value
            /\ pc' = "json_loaded"
            /\ UNCHANGED <<log, matches>>
    /\ UNCHANGED <<response, html_content, script_tag, matches_data, get_count>>
    /\ UNCHANGED <<urlVars, matchVars, searchVars>>
    /\ UNCHANGED <<statsVars, batchVars, apiVars>>

\* KEY not in json_data, line 84: TypeError unless json_data is a container
NotIn(key, j) ==
    CASE IsDict(j) -> Return(~HasKey(j, key))
      [] IsList(j) -> Return(\A i \in 1..Len(j.items) : j.items[i] # JStr(key))
      [] OTHER -> Raise("TypeError", "in")

\* lines 84-93: the key test, the subscript and the path lookup
LocateMatches ==
    /\ pc = "json_loaded"
    /\ history' = Enter("locating_payload")
    /\ LET absent == NotIn(BETCLIC_LIVE_GAMES_KEY, json_data)
       IN  IF absent.kind = "raise"
           THEN /\ Fail(MsgUnexpected)
                /\ UNCHANGED matches_data
           ELSE IF absent.value
           THEN /\ Fail(MsgNoLiveGamesKey)
                /\ UNCHANGED matches_data
           ELSE IF ~IsDict(json_data)
           THEN /\ Fail(MsgUnexpected)
                /\ UNCHANGED matches_data
           ELSE LET live_games_data == Lookup(json_data, BETCLIC_LIVE_GAMES_KEY)
                    found == get_nested_dict_value(live_games_data, BETCLIC_MATCHES_PATH)
                IN  IF found = JNull
                    THEN /\ Fail(MsgNoMatches)
                         /\ UNCHANGED matches_data
                    ELSE /\ matches_data' = found
                         /\ pc' = "matches_located"
                         /\ UNCHANGED <<log, matches>>
    /\ UNCHANGED <<response, html_content, script_tag, json_data, get_count>>
    /\ UNCHANGED <<urlVars, matchVars, searchVars>>
    /\ UNCHANGED <<statsVars, batchVars, apiVars>>

\* lines 95-96: len() raises TypeError for a number
ReturnMatches ==
    /\ pc = "matches_located"
    /\ history' = Enter("extracting_matches")
    /\ IF IsDict(matches_data) \/ IsList(matches_data)
       THEN /\ log' = Append(log, Info(MsgTotalMatches, Len(matches_data.items)))
            /\ matches' = Return(matches_data)
            /\ pc' = "done"
       ELSE Fail(MsgUnexpected)
    /\ UNCHANGED <<response, html_content, script_tag, json_data, matches_data, get_count>>
    /\ UNCHANGED <<urlVars, matchVars, searchVars>>
    /\ UNCHANGED <<statsVars, batchVars, apiVars>>

NextScrape == Fetch \/ FindScriptTag \/ LoadJson \/ LocateMatches \/ ReturnMatches

SpecScrape == InitScrape /\ [][NextScrape]_vars

(***************************************************************************)
(* Properties of the live feed acquisition.                                *)
(***************************************************************************)
ScrapeFailed == pc = "done" /\ matches = Return(JNull)

\* the failure reason a logged message stands for
ReasonOf(msg) ==
    CASE msg = MsgFetchFailed -> "network"
      [] msg = MsgNoScriptTag -> "payload_not_found"
      [] msg = MsgParseFailed -> "parse_error"
      [] msg \in {MsgNoLiveGamesKey, MsgNoMatches} -> "structure_missing"
      [] OTHER -> "unclassified"

ReportedReason == ReasonOf(log[Len(log)].msg)

\* the reason the claim assigns to what the call met
PayloadOf(r) == r.page.text.value

ExpectedReason(r) ==
    IF r.outcome = "connection_error" \/ r.status \notin 200..299 THEN "network"
    ELSE IF r.page.script \in {"absent", "empty"} THEN "payload_not_found"
    ELSE IF ~r.page.text.wellformed THEN "parse_error"
    ELSE "structure_missing"

\* C10: a failed run reports the reason of its own failure, and a page
\* whose script element is missing or empty is never reported as an
\* unclassified error.
C10_FailureReasonIdentified ==
    ScrapeFailed =>
        /\ log # <<>>
        /\ ReportedReason # "unclassified"
        /\ ReportedReason = ExpectedReason(response)

Stages == <<"fetching", "parsing_html", "locating_payload", "extracting_matches">>

IsPrefix(a, b) == Len(a) <= Len(b) /\ a = SubSeq(b, 1, Len(a))

ScrapeSucceeded == pc = "done" /\ matches.kind = "return" /\ matches.value # JNull

\* the value under the live-games key and then under "b" and "matches" of
\* the payload the page carries, read key by key
Under(j, key) == IF IsDict(j) /\ HasKey(j, key) THEN Lookup(j, key) ELSE JNull

ListOnPage(r) == Under(Under(Under(PayloadOf(r), BETCLIC_LIVE_GAMES_KEY), "b"), "matches")

\* C17: a run goes through the four stages in their order, makes one GET,
\* stops at the stage that fails, and is done with a list only after all
\* four stages, returning the list found under the key and path.
C17_StagesInOrderOneGet ==
    /\ IsPrefix(history, Stages)
    /\ get_count = (IF pc = "idle" THEN 0 ELSE 1)
    /\ ScrapeFailed => log[Len(log)].level = "ERROR"
    /\ ScrapeFailed /\ ReportedReason = "network" => history = SubSeq(Stages, 1, 1)
    /\ ScrapeFailed /\ ReportedReason = "payload_not_found" => history = SubSeq(Stages, 1, 2)
    /\ ScrapeFailed /\ ReportedReason \in {"parse_error", "structure_missing"} =>
           history = SubSeq(Stages, 1, 3)
    /\ ScrapeSucceeded =>
           /\ history = Stages
           /\ response.outcome = "response" /\ response.status = 200
           /\ response.page.script = "text" /\ response.page.text.wellformed
           /\ matches.value = ListOnPage(response)
           /\ log = <<Info(MsgTotalMatches, Len(matches.value.items))>>

C17_Witness ==
    /\ ScrapeSucceeded
    /\ history = Stages
    /\ get_count = 1
    /\ matches.value = JList(<<RawMatchJson(1), RawMatchJson(2)>>)

(***************************************************************************)
(* live_match_scraper.py and OpenAIHelper.py: the per-match detail         *)
(* acquisition.  One parse_match_stats call is a run through               *)
(* get_match_stats_html (the browser steps), get_raw_stats, raw2json and   *)
(* the append to match_stats.txt; calls follow one another.  What the      *)
(* browser and the language model answer is drawn at the step that asks.   *)
(* The OpenAI client is taken as configured (its constructor returns).     *)
(***************************************************************************)
MaxCalls == 2        \* parse_match_stats calls in a row

\* the statistics panels a match page can show
Panels == {"panel 1", "panel 2"}
OuterHtml(panel) == [t |-> "html", panel |-> panel]

\* BeautifulSoup(html).get_text(), line 104
get_text(html) == PyStr(html.panel)

\* get_raw_stats, lines 101-104: the text of a truthy HTML, else None
get_raw_stats(html) == IF html # None THEN get_text(html) ELSE None

\* the records a well-formed model answer decodes to
StatsRecord(n) == JDict(<<Item("home_team", JNum(n)), Item("away_team", JNum(n))>>)

\* a JSON text: malformed, or the serialisation of a value
Malformed == [wellformed |-> FALSE, value |-> JNull]
json_dumps(v) == [wellformed |-> TRUE, value |-> v]

\* json.loads: TypeError for None, JSONDecodeError for malformed text
json_loads(text) ==
    IF text = None THEN Raise("TypeError", "json.loads")
    ELSE IF ~text.wellformed THEN Raise("JSONDecodeError", "json.loads")
    ELSE Return(text.value)

\* what chat.completions.create can give: an API error, a message without
\* function_call, or a function_call with arguments
Completions ==
    {[kind |-> "api_error", arguments |-> Malformed],
     [kind |-> "no_function_call", arguments |-> Malformed],
     [kind |-> "function_call", arguments |-> Malformed]}
    \cup {[kind |-> "function_call", arguments |-> json_dumps(StatsRecord(n))] : n \in 1..2}

\* lines 130-135 of OpenAIHelper.py: the attribute chain, None when it raises
GeneratedJson(completion) ==
    IF completion.kind = "no_function_call" THEN None ELSE completion.arguments

\* raw2json, lines 19-137 of OpenAIHelper.py; raw_text only enters the prompt
raw2json(text, completion) ==
    IF completion.kind = "api_error" THEN Raise("APIError", "create")
    ELSE json_loads(GeneratedJson(completion))

\* open("match_stats.txt", "w") in place of "a": the file is cut first
OverwriteLine(file, result) == <<json_dumps(result)>>

\* lines 128-129: open in mode "a" and write json.dumps(result) and a newline
AppendLine(file, result) == Append(file, json_dumps(result))

InitStats ==
    /\ pc = "ready"
    /\ IdleStats
    /\ IdleUrl /\ IdleMatch /\ IdleSearch /\ IdleScrape /\ IdleBatch /\ IdleApi

StatsFrame == UNCHANGED <<urlVars, matchVars, searchVars, scrapeVars, batchVars, apiVars>>

\* the end of a parse_match_stats call, by return or by an exception
Finish(outcome) ==
    /\ stats_result' = outcome
    /\ parse_results' = Append(parse_results, [call |-> calls, outcome |-> outcome])
    /\ pc' = "finished"

\* parse_match_stats is called: lines 125-126 up to get_match_stats_html
StartCall ==
    /\ pc \in {"ready", "finished"}
    /\ calls < MaxCalls
    /\ calls' = calls + 1
    /\ automation' = <<>>
    /\ element_html' = NotCalled
    /\ raw_text' = None
    /\ stats_result' = NotCalled
    /\ pc' = "starting_browser"
    /\ UNCHANGED <<running_browsers, raw2json_calls, parse_results, stats_file, file_opens>>
    /\ StatsFrame

\* line 53: webdriver.Chrome starts a browser, or raises and starts none
StartChrome ==
    /\ pc = "starting_browser"
    /\ \/ /\ running_browsers' = running_browsers + 1
          /\ pc' = "loading"
          /\ UNCHANGED element_html
       \/ /\ element_html' = Raise("WebDriverException", "webdriver.Chrome")
          /\ pc' = "html_raised"
          /\ UNCHANGED running_browsers
    /\ UNCHANGED <<automation, raw_text, raw2json_calls, stats_result, parse_results,
                   stats_file, file_opens, calls>>
    /\ StatsFrame

\* line 56: driver.get, outside any try
LoadPage ==
    /\ pc = "loading"
    /\ \/ /\ pc' = "consent"
          /\ UNCHANGED element_html
       \/ /\ element_html' = Raise("WebDriverException", "driver.get")
          /\ pc' = "html_raised"
    /\ UNCHANGED <<running_browsers, automation, raw_text, raw2json_calls, stats_result,
                   parse_results, stats_file, file_opens, calls>>
    /\ StatsFrame

\* lines 62-69: the consent button, its failure caught and printed
AcceptCookies ==
    /\ pc = "consent"
    /\ \E outcome \in {"ok", "failed"} : automation' = Append(automation, outcome)
    /\ pc' = "stats_button"
    /\ UNCHANGED <<running_browsers, element_html, raw_text, raw2json_calls, stats_result,
                   parse_results, stats_file, file_opens, calls>>
    /\ StatsFrame

\* lines 75-82: the statistics button, its failure caught and printed
ClickStats ==
    /\ pc = "stats_button"
    /\ \E outcome \in {"ok", "failed"} : automation' = Append(automation, outcome)
    /\ pc' = "locating"
    /\ UNCHANGED <<running_browsers, element_html, raw_text, raw2json_calls, stats_result,
                   parse_results, stats_file, file_opens, calls>>
    /\ StatsFrame

\* lines 87-92: the panel's outerHTML, None when locating it raises
LocateElement ==
    /\ pc = "locating"
    /\ \E found \in {None} \cup {OuterHtml(p) : p \in Panels} :
          element_html' = Return(found)
    /\ pc' = "quitting"
    /\ UNCHANGED <<running_browsers, automation, raw_text, raw2json_calls, stats_result,
                   parse_results, stats_file, file_opens, calls>>
    /\ StatsFrame

\* lines 95-97: driver.quit and the return; the locals go out of scope
QuitDriver ==
    /\ pc = "quitting"
    /\ running_browsers' = running_browsers - 1
    /\ automation' = <<>>
    /\ pc' = "html_returned"
    /\ UNCHANGED <<element_html, raw_text, raw2json_calls, stats_result, parse_results,
                   stats_file, file_opens, calls>>
    /\ StatsFrame

\* an exception of get_match_stats_html leaves get_raw_stats (line 101) and
\* parse_match_stats (line 126), neither of which catches it
PropagateHtmlRaise ==
    /\ pc = "html_raised"
    /\ automation' = <<>>
    /\ Finish(element_html)
    /\ UNCHANGED <<running_browsers, element_html, raw_text, raw2json_calls,
                   stats_file, file_opens, calls>>
    /\ StatsFrame

\* lines 101-104 and line 126
GetRawStats ==
    /\ pc = "html_returned"
    /\ raw_text' = get_raw_stats(element_html.value)
    /\ pc' = "raw_stats"
    /\ UNCHANGED <<running_browsers, automation, element_html, raw2json_calls, stats_result,
                   parse_results, stats_file, file_opens, calls>>
    /\ StatsFrame

\* line 127: helper.raw2json(raw_text), whatever raw_text is
CallRaw2Json ==
    /\ pc = "raw_stats"
    /\ \E completion \in Completions :
          LET r == raw2json(raw_text, completion)
          IN  /\ raw2json_calls' = Append(raw2json_calls,
                     [call |-> calls, raw_text |-> raw_text, completion |-> completion])
              /\ IF r.kind = "raise"
                 THEN Finish(r)
                 ELSE /\ stats_result' = r
                      /\ pc' = "writing"
                      /\ UNCHANGED parse_results
    /\ UNCHANGED <<running_browsers, automation, element_html, raw_text,
                   stats_file, file_opens, calls>>
    /\ StatsFrame

\* lines 128-131: the append to match_stats.txt and the return
WriteStatsFile ==
    /\ pc = "writing"
    /\ file_opens' = Append(file_opens, "a")
    /\ stats_file' = AppendLine(stats_file, stats_result.value)
    /\ Finish(stats_result)
    /\ UNCHANGED <<running_browsers, automation, element_html, raw_text, raw2json_calls, calls>>
    /\ StatsFrame

NextStats ==
    \/ StartCall \/ StartChrome \/ LoadPage \/ AcceptCookies \/ ClickStats
    \/ LocateElement \/ QuitDriver \/ PropagateHtmlRaise \/ GetRawStats
    \/ CallRaw2Json \/ WriteStatsFile

SpecStats == InitStats /\ [][NextStats]_vars

(***************************************************************************)
(* Properties of the per-match detail acquisition.                         *)
(***************************************************************************)
\* the calls of raw2json made by the parse_match_stats call numbered c
Raw2JsonCallsOf(c) == {i \in 1..Len(raw2json_calls) : raw2json_calls[i].call = c}

\* C11: raw2json is invoked only with extracted text; a call that located
\* no panel does not invoke it and returns a result, not an error.
C11_NoTextSkipsConversion ==
    /\ \A i \in 1..Len(raw2json_calls) : raw2json_calls[i].raw_text # None
    /\ pc = "finished" /\ element_html = Return(None) =>
           /\ Raw2JsonCallsOf(calls) = {}
           /\ stats_result.kind = "return"

\* the positions of the code outside get_match_stats_html
OutsideHtmlCall == {"ready", "html_raised", "html_returned", "raw_stats", "writing", "finished"}

\* C12: whenever control is outside get_match_stats_html, by return or by
\* an exception, no browser that was started is still running.
C12_BrowserReleasedOnEveryExit ==
    pc \in OutsideHtmlCall => running_browsers = 0

BadModelOutput(completion) ==
    \/ completion.kind = "no_function_call"
    \/ completion.kind = "function_call" /\ ~completion.arguments.wellformed

\* C14: when the model output is absent or malformed, raw2json does not
\* raise and the caller receives an absent result.
C14_BadModelOutputGivesAbsentResult ==
    \A i \in 1..Len(raw2json_calls) :
        BadModelOutput(raw2json_calls[i].completion) =>
            \A j \in 1..Len(parse_results) :
                parse_results[j].call = raw2json_calls[i].call =>
                    parse_results[j].outcome = Return(JNull)

\* the finished calls whose normalization returned, in call order
Normalized ==
    LET Ok(e) == e.outcome.kind = "return"
    IN  SelectSeq(parse_results, Ok)

LinesAreNormalizedResults ==
    /\ stats_file = [i \in 1..Len(Normalized) |-> json_dumps(Normalized[i].outcome.value)]
    /\ \A i \in 1..Len(parse_results) : parse_results[i].call = i
    /\ \A i \in 1..Len(file_opens) : file_opens[i] = "a"

\* C15: match_stats.txt holds one line per call whose normalization
\* succeeded, in call order; a failed call appends nothing, written lines
\* stay as they are, and the file is only ever opened for appending.
C15_OneLinePerNormalization ==
    /\ [](LinesAreNormalizedResults)
    /\ [][IsPrefix(stats_file, stats_file')]_vars

C15_Witness ==
    /\ pc = "finished"
    /\ calls = 2
    /\ stats_file = <<json_dumps(StatsRecord(1)), json_dumps(StatsRecord(2))>>

(***************************************************************************)
(* main.py and the rest of betclic_scraper.py: the endpoints and the batch *)
(* orchestrator.  The module-level scraper holds self.matches, the result  *)
(* of the acquisition at start-up: None after a failed acquisition, else   *)
(* the list of RawMatch.  A dict the endpoints return is a JDict, whose    *)
(* items keep the insertion order; a URL in it is tagged JUrl.             *)
(***************************************************************************)
JUrl(u) == [t |-> "url", chars |-> u]

\* d[k] = v on a dict: the value is replaced in place, a new key goes last
DictSet(items, k, v) ==
    IF \E i \in 1..Len(items) : items[i].k = k
    THEN [i \in 1..Len(items) |-> IF items[i].k = k THEN Item(k, v) ELSE items[i]]
    ELSE Append(items, Item(k, v))

\* the f-string of line 137
MatchName(home, away) == home.s \o "-" \o away.s

\* the truth value of raw_match.get("is_live"), line 124
IsLive(raw) ==
    LET v == Get(raw, "is_live", None)
    IN  v.t = "bool" /\ v.b

\* the loop of process_live_matches, lines 123-126: loop is the matches
\* still to visit and the list built so far; the first raise ends it
RECURSIVE LiveFrom(_)
RECURSIVE LiveAfter(_)
LiveFrom(loop) ==
    IF loop.rest = <<>> THEN Return(loop.all_matches)
    ELSE IF ~IsLive(Head(loop.rest))
    THEN LiveFrom([rest |-> Tail(loop.rest), all_matches |-> loop.all_matches])
    ELSE Apply(LiveAfter, [rest |-> Tail(loop.rest), all_matches |-> loop.all_matches,
                           processed |-> process_match(Head(loop.rest))])

LiveAfter(x) ==
    IF x.processed.kind = "raise" THEN x.processed
    ELSE LiveFrom([rest |-> x.rest, all_matches |-> Append(x.all_matches, x.processed.value)])

\* process_live_matches, lines 119-128; iterating None raises TypeError
process_live_matches(matches_list) ==
    IF matches_list = None THEN Raise("TypeError", "for raw_match in self.data")
    ELSE LiveFrom([rest |-> matches_list.l, all_matches |-> <<>>])

\* lines 134-137 for one match: the URL, then the two names
UrlItem(steps) ==
    IF FirstRaise(steps).kind = "raise" THEN FirstRaise(steps)
    ELSE Return(Item(MatchName(steps[2].value, steps[3].value), JUrl(steps[1].value)))

UrlItemOf(raw) ==
    Apply(UrlItem, <<CombinedUrlOf(raw), ContestantName(raw, 0), ContestantName(raw, 1)>>)

\* the loop of get_match_urls, lines 133-138: loop is the matches still to
\* visit and the dict built so far; the first raise ends it
RECURSIVE UrlsFrom(_)
RECURSIVE UrlsAfter(_)
UrlsFrom(loop) ==
    IF loop.rest = <<>> THEN Return(loop.urls)
    ELSE Apply(UrlsAfter, [rest |-> Tail(loop.rest), urls |-> loop.urls,
                           item |-> UrlItemOf(Head(loop.rest))])

UrlsAfter(x) ==
    IF x.item.kind = "raise" THEN x.item
    ELSE UrlsFrom([rest |-> x.rest, urls |-> DictSet(x.urls, x.item.value.k, x.item.value.v)])

\* get_match_urls, lines 130-139
get_match_urls(matches_list) ==
    IF matches_list = None THEN Raise("TypeError", "for raw_match in self.data")
    ELSE UrlsFrom([rest |-> matches_list.l, urls |-> <<>>])

\* the payloads of the endpoints and of get_all_match_stats
ErrorPayload(message) == JDict(<<Item("status", JStr("error")), Item("message", JStr(message))>>)
SuccessPayload(key, value) == JDict(<<Item("status", JStr("success")), Item(key, value)>>)
MsgNoLiveMatches == "No live matches available"

\* lines 143 and 146: the entry written for an acquisition that returned or raised
EntryOf(url, outcome) ==
    IF outcome.kind = "return"
    THEN JDict(<<Item("url", url), Item("stats", outcome.value)>>)
    ELSE JDict(<<Item("url", url), Item("error", JStr(outcome.exc))>>)

\* the entry of a failed acquisition left out
RecordEntry_DropOnError(stats, name, url, outcome) ==
    IF outcome.kind = "return" THEN DictSet(stats, name, EntryOf(url, outcome)) ELSE stats

\* all_match_stats[name] = ..., lines 143 and 146
RecordEntry(stats, name, url, outcome) == DictSet(stats, name, EntryOf(url, outcome))

Event(e, i) == [e |-> e, i |-> i]

\* the delay left out
Delay_Skipped(events, i) == events

\* time.sleep(5) of line 140, before the acquisition of the i-th item
Delay(events, i) == Append(events, Event("sleep(5)", i))

\* what LiveMatchScraper(url).parse_match_stats() can do
AcquisitionOutcomes ==
    {Return(StatsRecord(1)),
     Raise("WebDriverException", "driver.get"),
     Raise("TypeError", "json.loads")}

\* the matches on the listing page
MatchOf(id, home, away, fragment, live) ==
    [FullMatch EXCEPT !["id"] = PyInt(id),
                      !["contestants"] = <<[name |-> PyStr(home)], [name |-> PyStr(away)]>>,
                      !["relative_desktop_url"] = fragment,
                      !["is_live"] = PyBool(live)]

ListedMatches ==
    {FullMatch,
     MatchOf(2, "Sporting", "Braga", <<"a", "a">>, TRUE),
     MatchOf(3, "Rio Ave", "Boavista", <<":", "a">>, FALSE),
     MatchOf(4, "Benfica", "FC Porto", <<":">>, TRUE),
     Without(MatchOf(5, "Farense", "Arouca", <<"a">>, TRUE), "is_live"),
     Without(FullMatch, "contestants")}

ScraperMatches == {None} \cup {PyList(l) : l \in SeqsUpTo(ListedMatches, MaxMatches)}

InitApi ==
    /\ pc = "ready"
    /\ scraper_matches \in ScraperMatches
    /\ operation = ""
    /\ api_response = NotCalled
    /\ IdleBatch
    /\ IdleUrl /\ IdleMatch /\ IdleSearch /\ IdleScrape /\ IdleStats

ApiFrame == UNCHANGED <<urlVars, matchVars, searchVars, scrapeVars, statsVars, scraper_matches>>

Respond(op, outcome) ==
    /\ operation' = op
    /\ api_response' = outcome
    /\ pc' = "responded"

\* an endpoint without try/except: an exception of the call escapes
LiveMatchesResponse(r) ==
    IF r.kind = "raise" THEN r ELSE Return(JDict(<<Item("live_matches", JList(r.value))>>))
LiveMatchUrlsResponse(r) ==
    IF r.kind = "raise" THEN r ELSE Return(JDict(<<Item("live_match_urls", JDict(r.value))>>))

\* live_matches, main.py lines 28-32
LiveMatches ==
    /\ pc = "ready"
    /\ Respond("live_matches",
               Apply(LiveMatchesResponse, process_live_matches(scraper_matches)))
    /\ UNCHANGED batchVars
    /\ ApiFrame

\* live_match_urls, main.py lines 34-38
LiveMatchUrls ==
    /\ pc = "ready"
    /\ Respond("live_match_urls",
               Apply(LiveMatchUrlsResponse, get_match_urls(scraper_matches)))
    /\ UNCHANGED batchVars
    /\ ApiFrame

\* raw_matches, main.py lines 40-47: a new acquisition, which returns a
\* list or None and never raises
ListRawMatches ==
    /\ pc = "ready"
    /\ \E n \in {-1} \cup (0..MaxMatches) :
          Respond("raw_matches",
                  IF n > 0
                  THEN Return(JDict(<<Item("status", JStr("success")),
                                      Item("match_count", JNum(n)),
                                      Item("matches", JList([i \in 1..n |-> RawMatchJson(i)]))>>))
                  ELSE Return(ErrorPayload("No matches found")))
    /\ UNCHANGED batchVars
    /\ ApiFrame

\* match_stats, main.py lines 50-68: the whole body is inside try/except
MatchStats ==
    /\ pc = "ready"
    /\ \E url_given \in BOOLEAN, outcome \in AcquisitionOutcomes :
          Respond("match_stats",
                  IF ~url_given THEN Return(ErrorPayload("400: URL must be provided."))
                  ELSE IF outcome.kind = "raise" THEN Return(ErrorPayload(outcome.exc))
                  ELSE Return(SuccessPayload("match_stats", outcome.value)))
    /\ UNCHANGED batchVars
    /\ ApiFrame

\* get_match_odds, main.py lines 86-114: the whole body is inside try/except
MatchOdds ==
    /\ pc = "ready"
    /\ \E url_given \in BOOLEAN,
          odds \in {Return(JNull), Return(JList(<<Leaf>>)), Raise("ConnectionError", "requests.get")} :
          Respond("match_odds",
                  IF ~url_given THEN Return(ErrorPayload("400: Match URL must be provided."))
                  ELSE IF odds.kind = "raise" THEN Return(ErrorPayload(odds.exc))
                  ELSE IF odds.value = JNull
                  THEN Return(ErrorPayload("404: No odds found for this match."))
                  ELSE Return(SuccessPayload("match_odds", odds.value)))
    /\ UNCHANGED batchVars
    /\ ApiFrame

\* positive_ev_odds, main.py lines 116-146: the whole body is inside try/except
PositiveEvOdds ==
    /\ pc = "ready"
    /\ \E url_given \in BOOLEAN, stats \in AcquisitionOutcomes,
          ev \in {JNull, JDict(<<Item("positive_ev_odds", JList(<<>>))>>)} :
          Respond("positive_ev_odds",
                  IF ~url_given THEN Return(ErrorPayload("400: Match URL must be provided."))
                  ELSE IF stats.kind = "raise" THEN Return(ErrorPayload(stats.exc))
                  ELSE IF ev = JNull
                  THEN Return(ErrorPayload("404: No positive EV odds found for this match."))
                  ELSE Return(SuccessPayload("match_odds", ev)))
    /\ UNCHANGED batchVars
    /\ ApiFrame

\* all_match_stats, main.py lines 70-79: the call of get_all_match_stats
AllMatchStats ==
    /\ pc = "ready"
    /\ operation' = "all_match_stats"
    /\ pc' = "batch_called"
    /\ UNCHANGED <<api_response, batchVars>>
    /\ ApiFrame

\* get_all_match_stats, lines 130-137 and 149-151
GetLiveMatchUrls ==
    /\ pc = "batch_called"
    /\ \E r \in {get_match_urls(scraper_matches)} :
           IF r.kind = "raise"
           THEN /\ batch_result' = Return(ErrorPayload(r.exc))
                /\ pc' = "batch_returned"
                /\ UNCHANGED <<live_match_urls, all_match_stats>>
           ELSE IF r.value = <<>>
           THEN /\ batch_result' = Return(ErrorPayload(MsgNoLiveMatches))
                /\ pc' = "batch_returned"
                /\ UNCHANGED <<live_match_urls, all_match_stats>>
           ELSE /\ live_match_urls' = r.value
                /\ all_match_stats' = <<>>
                /\ pc' = "looping"
                /\ UNCHANGED batch_result
    /\ UNCHANGED <<idx, trace, operation, api_response>>
    /\ ApiFrame

\* line 140, for the next item of the loop
Sleep ==
    /\ pc = "looping"
    /\ idx < Len(live_match_urls)
    /\ trace' = Delay(trace, idx + 1)
    /\ pc' = "slept"
    /\ UNCHANGED <<live_match_urls, idx, all_match_stats, batch_result, operation, api_response>>
    /\ ApiFrame

\* lines 141-142: the acquisition begins
StartAcquisition ==
    /\ pc = "slept"
    /\ trace' = Append(trace, Event("start", idx + 1))
    /\ pc' = "acquiring"
    /\ UNCHANGED <<live_match_urls, idx, all_match_stats, batch_result, operation, api_response>>
    /\ ApiFrame

\* lines 142-146: the acquisition returns or raises, and its entry is written
FinishAcquisition ==
    /\ pc = "acquiring"
    /\ \E outcome \in AcquisitionOutcomes :
          LET item == live_match_urls[idx + 1]
          IN  /\ all_match_stats' = RecordEntry(all_match_stats, item.k, item.v, outcome)
              /\ trace' = trace \o <<Event(outcome.kind, idx + 1), Event("write", idx + 1)>>
    /\ idx' = idx + 1
    /\ pc' = "looping"
    /\ UNCHANGED <<live_match_urls, batch_result, operation, api_response>>
    /\ ApiFrame

\* line 148, when the loop is over
ReturnAll ==
    /\ pc = "looping"
    /\ idx = Len(live_match_urls)
    /\ batch_result' = Return(JDict(all_match_stats))
    /\ pc' = "batch_returned"
    /\ UNCHANGED <<live_match_urls, idx, all_match_stats, trace, operation, api_response>>
    /\ ApiFrame

\* all_match_stats, main.py line 80
RespondAllMatchStats ==
    /\ pc = "batch_returned"
    /\ api_response' = Return(SuccessPayload("match_stats_data", batch_result.value))
    /\ pc' = "responded"
    /\ UNCHANGED <<operation, batchVars>>
    /\ ApiFrame

NextApi ==
    \/ LiveMatches \/ LiveMatchUrls \/ ListRawMatches \/ MatchStats \/ MatchOdds
    \/ PositiveEvOdds \/ AllMatchStats \/ GetLiveMatchUrls \/ Sleep
    \/ StartAcquisition \/ FinishAcquisition \/ ReturnAll \/ RespondAllMatchStats

SpecApi == InitApi /\ [][NextApi]_vars

(***************************************************************************)
(* Properties of the batch orchestrator and of the endpoints.              *)
(***************************************************************************)
EventsOf(i) == {k \in 1..Len(trace) : trace[k].i = i}
Keys(d) == {d.items[k].k : k \in 1..Len(d.items)}

\* the result holds, for each name/URL item, one entry under the name: the
\* URL with the stats of an acquisition that returned, or with the error of
\* one that raised; each item was acquired once
OneEntryPerMatch(urls, result) ==
    /\ Len(result.items) = Len(urls)
    /\ \A i \in 1..Len(urls) :
          /\ result.items[i].k = urls[i].k
          /\ Keys(result.items[i].v) \in {{"url", "stats"}, {"url", "error"}}
          /\ Lookup(result.items[i].v, "url") = urls[i].v
          /\ Cardinality({k \in EventsOf(i) : trace[k].e = "start"}) = 1
          /\ Cardinality({k \in EventsOf(i) : trace[k].e \in {"return", "raise"}}) = 1
          /\ \A k \in EventsOf(i) :
                /\ trace[k].e = "return" => HasKey(result.items[i].v, "stats")
                /\ trace[k].e = "raise" => HasKey(result.items[i].v, "error")

\* C13 as stated: for any set of live match URLs, the empty one included,
\* the returned mapping has one entry per match name.
C13_OneEntryPerMatchForAnySet ==
    pc = "batch_returned" =>
        \A r \in {get_match_urls(scraper_matches)} :
            r.kind = "return" => OneEntryPerMatch(r.value, batch_result.value)

\* C13, amended: for a non-empty set of live match URLs the returned
\* mapping has one entry per match name, {url, stats} or {url, error}, each
\* URL acquired once whatever the others did; for the empty set the call
\* returns the error payload "No live matches available".
C13_OneEntryPerMatch ==
    pc = "batch_returned" =>
        \A r \in {get_match_urls(scraper_matches)} :
            r.kind = "return" =>
                IF r.value = <<>>
                THEN batch_result = Return(ErrorPayload(MsgNoLiveMatches)) /\ trace = <<>>
                ELSE OneEntryPerMatch(r.value, batch_result.value)

C13_Witness ==
    /\ pc = "batch_returned"
    /\ Len(live_match_urls) = 3
    /\ Len(batch_result.value.items) = 3
    /\ HasKey(batch_result.value.items[1].v, "stats")
    /\ HasKey(batch_result.value.items[2].v, "error")
    /\ HasKey(batch_result.value.items[3].v, "stats")

\* the event at position k of a strictly sequential loop
SequentialEvent(k, e) ==
    CASE k % 4 = 1 -> e = "sleep(5)"
      [] k % 4 = 2 -> e = "start"
      [] k % 4 = 3 -> e \in {"return", "raise"}
      [] OTHER -> e = "write"

\* C18: the acquisitions run one after another: each is preceded by the
\* delay and begins only after the previous one has returned or raised
\* and its entry has been written; none begins while another is running.
C18_SequentialWithDelay ==
    /\ \A k \in 1..Len(trace) :
          /\ trace[k].i = ((k - 1) \div 4) + 1
          /\ SequentialEvent(k, trace[k].e)
    /\ pc = "looping" => Len(trace) = 4 * idx /\ Len(all_match_stats) = idx
    /\ pc = "slept" => Len(trace) = 4 * idx + 1
    /\ pc = "acquiring" => Len(trace) = 4 * idx + 2

C18_Witness ==
    /\ pc = "acquiring"
    /\ idx = 1
    /\ trace = <<Event("sleep(5)", 1), Event("start", 1), Event("raise", 1), Event("write", 1),
                 Event("sleep(5)", 2), Event("start", 2)>>

\* C16: an endpoint answers every request with a payload, never with an
\* escaping exception; after a failed acquisition the two listing
\* endpoints answer with a status/message payload.
C16_EveryErrorIsAPayload ==
    pc = "responded" =>
        /\ api_response.kind = "return"
        /\ scraper_matches = None /\ operation \in {"live_matches", "live_match_urls"} =>
               {"status", "message"} \subseteq Keys(api_response.value)

\* C19: the URLs listed are those of the live matches, one entry for each
\* match process_live_matches returns.
C19_UrlsOnlyOfLiveMatches ==
    pc = "responded" /\ operation = "live_match_urls" /\ api_response.kind = "return" =>
        \A live \in {process_live_matches(scraper_matches)} :
            live.kind = "return" =>
                LET urls == Lookup(api_response.value, "live_match_urls").items
                IN  /\ Len(urls) = Len(live.value)
                    /\ {urls[i].v.chars : i \in 1..Len(urls)}
                           = {live.value[i].url : i \in 1..Len(live.value)}

=============================================================================
